---- MODULE Spec2Model ----
(***************************************************************************)
(* A model of resolve.py: the recursive resolver (_lookup_recursive), the  *)
(* CNAME-chasing driver (lookup) and the three process-wide tables CACHE,  *)
(* RESOLVING and DELEGATION_CACHE.  Python's call stack is the variable    *)
(* stack (the frames of _lookup_recursive) below the one frame of lookup,  *)
(* lk.  One action is one stretch of code between two calls or returns.    *)
(* The name servers are the environment: every dns.query.udp call either   *)
(* raises or returns one of the replies of ServerReplies (Spec); under     *)
(* LoopSpec the servers answer every query with a referral.                *)
(***************************************************************************)
EXTENDS Integers, Sequences, FiniteSets, TLC

\* ------------------------------------------------------------------ bounds
\* How many times lookup is called in one run.
MaxLookups == 2
\* How many dns.query.udp calls, over one run, return a reply (a call that
\* raises is always possible).
MaxReplies == 3
\* How many of the thirteen root servers the resolver is given.
NumRoots == 2
\* The interpreter's recursion limit, counted in calls of _lookup_recursive:
\* the call that would make the stack deeper raises RecursionError.
MaxDepth == 4

\* ------------------------------------------------------- program constants
CNAME_CHAIN_LIMIT == 10
collected_limit == 3
NOERROR == 0
NXDOMAIN == 3

RootHints ==
  << "198.41.0.4", "199.9.14.201", "192.33.4.12", "199.7.91.13",
     "192.203.230.10", "192.5.5.241", "192.112.36.4", "198.97.190.53",
     "192.36.148.17", "192.58.128.30", "193.0.14.129", "199.7.83.42",
     "202.12.27.33" >>

\* The root servers a run uses: the first NumRoots of the thirteen.
ROOT_SERVERS == SubSeq(RootHints, 1, NumRoots)

\* --------------------------------------------------------------- the names
\* A dns.name.Name is the tuple of its labels, the root label "" last.
RootName == << "" >>
ZoneEx == << "ex", "" >>
NameA == << "a", "ex", "" >>
NameB == << "b", "ex", "" >>
NameC == << "c", "ex", "" >>
NameX == << "x", "ex", "" >>
NameY == << "y", "ex", "" >>
HostNames == {NameA, NameB, NameC, NameX, NameY}
\* The (name, type) pairs lookup is called with.
LookupKeys == (HostNames \X {"A"}) \cup { <<NameB, "MX">> }

\* str(name).rstrip('.') of an absolute name: the labels without the root label.
NameToText(n) == IF Len(n) > 0 /\ n[Len(n)] = "" THEN SubSeq(n, 1, Len(n) - 1) ELSE n

\* dns.name.from_text(text): relative text is made absolute under the root.
FromText(t) == IF Len(t) > 0 /\ t[Len(t)] = "" THEN t ELSE Append(t, "")

\* name.parent(): the name without its leftmost label.
Parent(n) == Tail(n)

\* ':' in server_ip
HasColon(ip) == ip \in {"::1", "2001:db8::53"}

\* ------------------------------------------------------------ the messages
RRset(n, t, items) == [name |-> n, rdtype |-> t, items |-> items]

\* The value None, shaped as a message so that it compares with one.
None ==
  [rcode |-> -1, question |-> <<>>, answer |-> <<>>, authority |-> <<>>,
   additional |-> <<>>]

\* dns.message.make_query(name, type): the question.
MakeQuery(n, t) == <<n, t>>

\* dns.message.make_response(query): an empty reply to the question.
MakeResponse(q) ==
  [rcode |-> NOERROR, question |-> q, answer |-> <<>>, authority |-> <<>>,
   additional |-> <<>>]

\* list(dict.fromkeys(s)): the first occurrences, in order.
RECURSIVE DedupFrom(_, _)
DedupFrom(s, seen) ==
  IF s = <<>> THEN <<>>
  ELSE IF Head(s) \in seen THEN DedupFrom(Tail(s), seen)
       ELSE <<Head(s)>> \o DedupFrom(Tail(s), seen \cup {Head(s)})

\* Nothing is dropped.
DedupNone(s) == s

Dedup(s) == DedupFrom(s, {})

RECURSIVE Flatten(_)
Flatten(ss) == IF ss = <<>> THEN <<>> ELSE Head(ss) \o Flatten(Tail(ss))

\* str(rr) of an A rdata.
AddrText(rd) == rd[1]

OfType(rrsets, t) == SelectSeq(rrsets, LAMBDA r : r.rdtype = t)

Put(f, k, v) == [x \in (DOMAIN f) \cup {k} |-> IF x = k THEN v ELSE f[x]]

\* ------------------------------------------- the stub servers (environment)
\* What the name servers hold: a -> b -> c is a CNAME chain that ends at c,
\* which has four A records and one MX record; x -> y -> x is a CNAME cycle.
CnameTarget(n) ==
  CASE n = NameA -> NameB
    [] n = NameB -> NameC
    [] n = NameX -> NameY
    [] n = NameY -> NameX
    [] OTHER -> RootName

HasCname(n) == n \in {NameA, NameB, NameX, NameY}

\* An rdata is the tuple of its fields: an A rdata holds its address, a CNAME
\* or NS rdata is the target name.
AddressesOfC ==
  << <<"10.0.0.1">>, <<"10.0.0.2">>, <<"10.0.0.3">>, <<"10.0.0.4">> >>

\* The record set a server that holds the data answers (n, t) with.
ZoneRRset(n, t) ==
  IF HasCname(n) THEN RRset(n, "CNAME", << CnameTarget(n) >>)
  ELSE IF t = "A" THEN RRset(n, "A", AddressesOfC)
  ELSE RRset(n, "MX", << <<"10">> \o NameA >>)

AnswerReply(n, t) ==
  [MakeResponse(MakeQuery(n, t)) EXCEPT !.answer = << ZoneRRset(n, t) >>]

\* An answer that holds neither the asked type nor a CNAME.
OtherAnswerReply(n, t) ==
  [MakeResponse(MakeQuery(n, t)) EXCEPT !.answer = << RRset(n, "TXT", << <<"v=1">> >>) >>]

NxDomainReply(n, t) ==
  [MakeResponse(MakeQuery(n, t)) EXCEPT
     !.rcode = NXDOMAIN,
     !.authority = << RRset(ZoneEx, "SOA", << <<"ns1", "ex", "">> >>) >>]

\* NODATA: success, no answer, an SOA in authority (here beside an NS set).
NoDataReply(n, t) ==
  [MakeResponse(MakeQuery(n, t)) EXCEPT
     !.authority = << RRset(ZoneEx, "NS", << <<"ns1", "ex", "">> >>),
                      RRset(ZoneEx, "SOA", << <<"ns1", "ex", "">> >>) >>]

\* Success, no answer, an authority section with neither SOA nor NS.
DeadEndReply(n, t) ==
  [MakeResponse(MakeQuery(n, t)) EXCEPT
     !.authority = << RRset(ZoneEx, "DS", << <<"key">> >>) >>]

\* Success and three empty sections.
EmptyReply(n, t) == MakeResponse(MakeQuery(n, t))

\* A referral for zone ex. with glue: the A sets yield 10.0.0.1 twice, then
\* 10.0.0.3; the AAAA set is no glue.
GluedReferral(n, t) ==
  [MakeResponse(MakeQuery(n, t)) EXCEPT
     !.authority = << RRset(ZoneEx, "NS",
                        << <<"ns1", "ex", "">>, <<"ns2", "ex", "">>,
                           <<"ns3", "ex", "">> >>) >>,
     !.additional = << RRset(<<"ns1", "ex", "">>, "A", << <<"10.0.0.1">>, <<"10.0.0.2">> >>),
                       RRset(<<"ns1", "ex", "">>, "AAAA", << <<"::1">> >>),
                       RRset(<<"ns2", "ex", "">>, "A", << <<"10.0.0.1">> >>),
                       RRset(<<"ns3", "ex", "">>, "A", << <<"10.0.0.3">> >>) >>]

\* A referral for zone ex. without glue, naming four name servers.
GluelessReferral(n, t) ==
  [MakeResponse(MakeQuery(n, t)) EXCEPT
     !.authority = << RRset(ZoneEx, "NS",
                        << NameC, NameA, NameB, NameX >>) >>]

\* A referral for zone ex. without glue whose two name servers are x and y:
\* given in reply to the A queries for x and y themselves, each name needs
\* the other's address.
MutualReferral(n, t) ==
  [MakeResponse(MakeQuery(n, t)) EXCEPT
     !.authority = << RRset(ZoneEx, "NS", << NameX, NameY >>) >>]

\* Servers that never give an answer: every query for x or y gets the
\* referral to x and y, every other query the referral with glue, also from
\* the servers that referral names.
LoopReply(n, t) ==
  IF n \in {NameX, NameY} THEN MutualReferral(n, t) ELSE GluedReferral(n, t)

\* The replies dns.query.udp may return for the query (n, t), whatever the
\* server asked: the data of the name; for a any of the other replies as well.
ServerReplies(n, t) ==
  { AnswerReply(n, t) } \cup
  ( IF n = NameA
    THEN { OtherAnswerReply(n, t), NxDomainReply(n, t), NoDataReply(n, t),
           DeadEndReply(n, t), EmptyReply(n, t), GluedReferral(n, t),
           GluelessReferral(n, t) }
    ELSE {} )

\* The replies of a server that holds the name's data or refers to one.
TruthfulReplies(n, t) ==
  { AnswerReply(n, t), GluedReferral(n, t), GluelessReferral(n, t) }

\* What dns.query.udp may raise.
TransportErrors == {"Timeout", "OSError", "Exception"}

\* ----------------------------------------------------------------- state
VARIABLES
  CACHE,             \* (name, type) -> Message                     (line 38)
  RESOLVING,         \* the keys being resolved as name-server names (line 41)
  DELEGATION_CACHE,  \* zone name -> list of IPv4 addresses          (line 45)
  lk,                \* the frame of lookup, or idle
  stack,             \* the frames of _lookup_recursive, innermost last
  ret,               \* the value the last return handed to its caller
  nReplies,          \* replies the servers have given in this run
  queried,           \* whether dns.query.udp was called since lookup was called
  clean,             \* whether every such call got the name's data or a referral
  results,           \* what each finished lookup call returned
  ev,                \* the dns.query.udp call the last step made, or the
                     \* return of None it made, if any
  pend,              \* the glue referral not yet followed by a query
  wr                 \* the write to CACHE the last step made, if any

vars ==
  << CACHE, RESOLVING, DELEGATION_CACHE, lk, stack, ret, nReplies, queried,
     clean, results, ev, pend, wr >>

IdleLk ==
  [pc |-> "idle", original_target |-> <<>>, original_qtype |-> "",
   target_name |-> <<>>, all_answers |-> <<>>, cname_chain_count |-> 0,
   iters |-> 0]

\* No write to CACHE.
NoWr == [by |-> "none", key |-> <<>>, had |-> FALSE, same |-> FALSE]

\* The write CACHE[k] = v: by is "engine" for lines 126, 131, 137 and 154,
\* "driver" for a write of lookup; had tells whether the key was there
\* before, same whether it held the Message written.
Written(by, cache, k, v) ==
  [by |-> by, key |-> k, had |-> k \in DOMAIN cache,
   same |-> k \in DOMAIN cache /\ cache[k] = v]

NoPend == [active |-> FALSE, hit |-> FALSE, key |-> <<>>, reply |-> None]

NoEv ==
  [kind |-> "none", key |-> <<>>, server |-> "", reply |-> None, depth |-> 0,
   idx |-> 0, nfail |-> 0, cache |-> <<>>, deleg |-> <<>>]

Top(s) == s[Len(s)]
Pop(s) == SubSeq(s, 1, Len(s) - 1)
SetTop(s, f) == [s EXCEPT ![Len(s)] = f]

\* ------------------------------------------------------ _lookup_recursive
\* The loop variable of line 115 at or after position i: entries with a ':'
\* are passed over (line 117).
RECURSIVE NextServer(_, _)
NextServer(servers, i) ==
  IF i > Len(servers) THEN i
  ELSE IF HasColon(servers[i]) THEN NextServer(servers, i + 1)
  ELSE i

\* A call _lookup_recursive(n, t, nameservers), about to run line 108.
NewFrame(n, t, nameservers) ==
  [pc |-> "enter", target_name |-> n, qtype |-> t,
   nameservers |-> Dedup(nameservers), idx |-> 0, nfail |-> 0,
   ns_names |-> <<>>, ns_idx |-> 0, zone_name |-> <<>>,
   next_server_ips |-> <<>>, via |-> ""]

\* any(rrset.rdtype == SOA for rrset in response.authority)
HasSoa(m) == OfType(m.authority, "SOA") # <<>>

\* ns_names of lines 143-150: the targets of the NS record sets, as text.
NsNames(m) ==
  LET sets == OfType(m.authority, "NS")
  IN  Flatten([i \in 1..Len(sets) |->
                 [j \in 1..Len(sets[i].items) |-> NameToText(sets[i].items[j])]])

\* zone_name of lines 144-148: the owner of the last NS record set.
ZoneName(m) ==
  LET sets == OfType(m.authority, "NS") IN sets[Len(sets)].name

\* Every address of every A record set of the additional section.
GlueIpsAll(m) ==
  LET sets == OfType(m.additional, "A")
  IN  Flatten([i \in 1..Len(sets) |->
                 [j \in 1..Len(sets[i].items) |-> AddrText(sets[i].items[j])]])

\* next_server_ips of lines 158-161: the first address of each A record set
\* of the additional section.
GlueIps(m) ==
  LET sets == OfType(m.additional, "A")
  IN  [i \in 1..Len(sets) |-> AddrText(sets[i].items[1])]

\* Lines 193-197: the addresses of the A record sets of a reply's answer.
CollectIps(resp) ==
  IF resp = None \/ resp.answer = <<>> THEN <<>>
  ELSE LET sets == OfType(resp.answer, "A")
       IN  Flatten([i \in 1..Len(sets) |->
                      [j \in 1..Len(sets[i].items) |-> AddrText(sets[i].items[j])]])

\* The referral test is made before the SOA test.
ClassifyReferralFirst(m) ==
  IF m.answer # <<>> THEN "answer"
  ELSE IF m.rcode # NOERROR THEN "negative"
  ELSE IF NsNames(m) # <<>> THEN "referral"
  ELSE IF HasSoa(m) THEN "nodata"
  ELSE IF m.authority # <<>> THEN "deadend"
  ELSE "fallthrough"

\* The branch lines 125-155 take on a reply.
Classify(m) ==
  IF m.answer # <<>> THEN "answer"
  ELSE IF m.rcode # NOERROR THEN "negative"
  ELSE IF HasSoa(m) THEN "nodata"
  ELSE IF m.authority # <<>>
       THEN IF NsNames(m) = <<>> THEN "deadend" ELSE "referral"
  ELSE "fallthrough"

\* Only the timeout is caught: an OSError leaves the loop.
CaughtTimeoutOnly(e) == e = "Timeout"

\* Lines 212-215: the exceptions the loop body's handlers catch.
Caught(e) == e \in {"Timeout", "OSError", "Exception"}

\* The loop over the name server names never ends early.
EnoughIpsNever(ips) == FALSE

\* The loop ends two addresses late.
EnoughIpsLate(ips) == Len(ips) >= collected_limit + 2

\* Line 199: enough addresses collected.
EnoughIps(ips) == Len(ips) >= collected_limit

\* Line 203: the collected addresses, IPv4 only, first occurrences.
CleanIps(ips) == Dedup(SelectSeq(ips, LAMBDA ip : ~HasColon(ip)))

\* `continue`, or the end of the loop body: on to the next server.
Advance(f) ==
  [f EXCEPT !.pc = "loop", !.idx = NextServer(f.nameservers, f.idx + 1),
            !.ns_names = <<>>, !.ns_idx = 0, !.zone_name = <<>>,
            !.next_server_ips = <<>>, !.via = ""]

\* A frame waiting for the recursive call of line 168 (via glue) or of line
\* 208 (via the name servers it resolved).
RecWait(f, zone, via) ==
  [f EXCEPT !.pc = "rec_wait", !.ns_names = <<>>, !.ns_idx = 0,
            !.zone_name = zone, !.next_server_ips = <<>>, !.via = via]

\* Lines 198-210, once name server ns_idx is dealt with and ips are the
\* addresses collected so far: the next name, or the end of the loop (line
\* 200, or the names are used up), the delegation cached and the recursive
\* call made.  s is the stack with frame f on top.
AfterNs(s, f, ips, brk) ==
  IF ~brk /\ f.ns_idx < Len(f.ns_names)
  THEN [stack |-> SetTop(s, [f EXCEPT !.pc = "ns_loop", !.ns_idx = @ + 1,
                                      !.next_server_ips = ips]),
        deleg |-> DELEGATION_CACHE]
  ELSE IF ips = <<>>
  THEN [stack |-> SetTop(s, Advance(f)), deleg |-> DELEGATION_CACHE]
  ELSE [stack |-> IF CleanIps(ips) # <<>>
                  THEN Append(SetTop(s, RecWait(f, f.zone_name, "ns")),
                              NewFrame(f.target_name, f.qtype, CleanIps(ips)))
                  ELSE SetTop(s, Advance(f)),
        deleg |-> Put(DELEGATION_CACHE, f.zone_name, CleanIps(ips))]

\* The check never finds the key.
CacheHitNever(cache, k) == FALSE

\* Line 109: cache_key in CACHE.
CacheHit(cache, k) == k \in DOMAIN cache

\* Lines 108-110: the cache check on entry.
EngineEnter ==
  /\ stack # <<>>
  /\ Top(stack).pc = "enter"
  /\ LET f == Top(stack)
         k == <<f.target_name, f.qtype>>
     IN  IF CacheHit(CACHE, k)
         THEN /\ stack' = Pop(stack)
              /\ ret' = CACHE[k]
              /\ pend' = IF pend.active THEN [pend EXCEPT !.hit = TRUE] ELSE pend
         ELSE /\ stack' = SetTop(stack, [f EXCEPT !.pc = "loop",
                                 !.idx = NextServer(f.nameservers, 1)])
              /\ UNCHANGED << ret, pend >>
  /\ ev' = NoEv
  /\ wr' = NoWr
  /\ UNCHANGED << CACHE, RESOLVING, DELEGATION_CACHE, lk, nReplies, queried, clean,
                  results >>

\* Line 217: every server was tried.
EngineExhausted ==
  /\ stack # <<>>
  /\ Top(stack).pc = "loop"
  /\ Top(stack).idx > Len(Top(stack).nameservers)
  /\ stack' = Pop(stack)
  /\ ret' = None
  /\ ev' = [NoEv EXCEPT !.kind = "absent",
                        !.key = <<Top(stack).target_name, Top(stack).qtype>>,
                        !.depth = Len(stack), !.idx = Top(stack).idx,
                        !.nfail = Top(stack).nfail]
  /\ wr' = NoWr
  /\ UNCHANGED << CACHE, RESOLVING, DELEGATION_CACHE, lk, nReplies, queried, clean,
                  results, pend >>

\* Lines 120-122 and 212-215: dns.query.udp raises e.
QueryRaises(f, e) ==
  /\ ev' = [kind |-> "raise", key |-> <<f.target_name, f.qtype>>,
            server |-> f.nameservers[f.idx], reply |-> None,
            depth |-> Len(stack), idx |-> f.idx, nfail |-> f.nfail,
            cache |-> CACHE, deleg |-> DELEGATION_CACHE]
  /\ clean' = FALSE
  /\ pend' = NoPend
  /\ wr' = NoWr
  /\ queried' = TRUE
  /\ IF Caught(e)
     THEN /\ stack' = SetTop(stack, [Advance(f) EXCEPT !.nfail = @ + 1])
          /\ lk' = lk
     ELSE /\ stack' = <<>>
          /\ lk' = [lk EXCEPT !.pc = "raised"]
  /\ UNCHANGED << CACHE, RESOLVING, DELEGATION_CACHE, ret, nReplies, results >>

\* Lines 122-170: dns.query.udp returns m.
QueryReplies(f, m) ==
  LET k == <<f.target_name, f.qtype>>
      c == Classify(m)
      glue == GlueIps(m)
  IN
  /\ ev' = [kind |-> "reply", key |-> k, server |-> f.nameservers[f.idx],
            reply |-> m, depth |-> Len(stack), idx |-> f.idx,
            nfail |-> f.nfail, cache |-> CACHE, deleg |-> DELEGATION_CACHE]
  /\ clean' = (clean /\ m \in TruthfulReplies(f.target_name, f.qtype))
  /\ queried' = TRUE
  /\ CASE c \in {"answer", "negative", "nodata", "deadend"} ->
            /\ CACHE' = Put(CACHE, k, m)
            /\ wr' = Written("engine", CACHE, k, m)
            /\ stack' = Pop(stack)
            /\ ret' = m
            /\ pend' = NoPend
            /\ UNCHANGED DELEGATION_CACHE
       [] c = "referral" /\ glue # <<>> ->
            /\ DELEGATION_CACHE' = Put(DELEGATION_CACHE, ZoneName(m), Dedup(glue))
            /\ stack' = Append(SetTop(stack, RecWait(f, ZoneName(m), "glue")),
                               NewFrame(f.target_name, f.qtype, glue))
            /\ pend' = [active |-> TRUE, hit |-> FALSE, key |-> k, reply |-> m]
            /\ wr' = NoWr
            /\ UNCHANGED << CACHE, ret >>
       [] c = "referral" /\ glue = <<>> ->
            /\ stack' = SetTop(stack, [f EXCEPT !.pc = "ns_loop",
                                 !.ns_names = NsNames(m), !.ns_idx = 1,
                                 !.zone_name = ZoneName(m),
                                 !.next_server_ips = <<>>])
            /\ pend' = NoPend
            /\ wr' = NoWr
            /\ UNCHANGED << CACHE, DELEGATION_CACHE, ret >>
       [] OTHER ->
            /\ stack' = SetTop(stack, Advance(f))
            /\ pend' = NoPend
            /\ wr' = NoWr
            /\ UNCHANGED << CACHE, DELEGATION_CACHE, ret >>
  /\ UNCHANGED << RESOLVING, lk, results >>

\* One pass of the loop of line 115 with a server left to ask.
EngineQuery ==
  /\ stack # <<>>
  /\ Top(stack).pc = "loop"
  /\ Top(stack).idx <= Len(Top(stack).nameservers)
  /\ LET f == Top(stack)
     IN  \/ \E e \in TransportErrors : QueryRaises(f, e)
         \/ /\ nReplies < MaxReplies
            /\ nReplies' = nReplies + 1
            /\ \E m \in ServerReplies(f.target_name, f.qtype) : QueryReplies(f, m)

\* No key is ever taken to be in flight.
InFlightNever(resolving, key) == FALSE

\* Line 178: (ns_dns_name, A) in RESOLVING.
InFlight(resolving, key) == key \in resolving

\* Lines 174-191: the next name server name of a referral without glue.
EngineNsStep ==
  /\ stack # <<>>
  /\ Top(stack).pc = "ns_loop"
  /\ LET f == Top(stack)
         ns_dns_name == FromText(f.ns_names[f.ns_idx])
         ns_cache_key == <<ns_dns_name, "A">>
     IN  IF InFlight(RESOLVING, ns_cache_key)
         THEN LET n == AfterNs(stack, f, f.next_server_ips, FALSE)
              IN  /\ stack' = n.stack
                  /\ DELEGATION_CACHE' = n.deleg
                  /\ UNCHANGED RESOLVING
         ELSE IF ns_cache_key \in DOMAIN CACHE
         THEN LET ips == f.next_server_ips \o CollectIps(CACHE[ns_cache_key])
                  n == AfterNs(stack, f, ips, EnoughIps(ips))
              IN  /\ stack' = n.stack
                  /\ DELEGATION_CACHE' = n.deleg
                  /\ UNCHANGED RESOLVING
         ELSE /\ RESOLVING' = RESOLVING \cup {ns_cache_key}
              /\ stack' = Append(SetTop(stack, [f EXCEPT !.pc = "ns_wait"]),
                                 NewFrame(ns_dns_name, "A", ROOT_SERVERS))
              /\ UNCHANGED DELEGATION_CACHE
  /\ ev' = NoEv
  /\ wr' = NoWr
  /\ UNCHANGED << CACHE, lk, ret, nReplies, queried, clean, results, pend >>

\* The key stays in the set.
DiscardNothing(resolving, key) == resolving

\* Line 191: RESOLVING.discard(ns_cache_key), in the finally clause.
Discard(resolving, key) == resolving \ {key}

\* Lines 189-210: the nested resolution of a name server name has returned.
EngineNsReturn ==
  /\ stack # <<>>
  /\ Top(stack).pc = "ns_wait"
  /\ LET f == Top(stack)
         ns_cache_key == <<FromText(f.ns_names[f.ns_idx]), "A">>
         ips == f.next_server_ips \o CollectIps(ret)
         n == AfterNs(stack, f, ips, EnoughIps(ips))
     IN  /\ RESOLVING' = Discard(RESOLVING, ns_cache_key)
         /\ stack' = n.stack
         /\ DELEGATION_CACHE' = n.deleg
  /\ ret' = None
  /\ ev' = NoEv
  /\ wr' = NoWr
  /\ UNCHANGED << CACHE, lk, nReplies, queried, clean, results, pend >>

\* Lines 168-170 and 208-210: the recursive call has returned.
EngineRecReturn ==
  /\ stack # <<>>
  /\ Top(stack).pc = "rec_wait"
  /\ IF ret # None
     THEN /\ stack' = Pop(stack)
          /\ ret' = ret
     ELSE /\ stack' = SetTop(stack, Advance(Top(stack)))
          /\ ret' = None
  /\ ev' = NoEv
  /\ wr' = NoWr
  /\ UNCHANGED << CACHE, RESOLVING, DELEGATION_CACHE, lk, nReplies, queried, clean,
                  results, pend >>

\* Lines 122-168 and 214: dns.query.udp returns the referral with glue m
\* when the stack is MaxDepth deep: the delegation is stored, the recursive
\* call of line 168 raises RecursionError, and the handler of line 214 goes
\* on to the next server.
QueryOverflows(f, m) ==
  /\ ev' = [kind |-> "reply", key |-> <<f.target_name, f.qtype>>,
            server |-> f.nameservers[f.idx], reply |-> m, depth |-> Len(stack),
            idx |-> f.idx, nfail |-> f.nfail, cache |-> CACHE,
            deleg |-> DELEGATION_CACHE]
  /\ DELEGATION_CACHE' = Put(DELEGATION_CACHE, ZoneName(m), Dedup(GlueIps(m)))
  /\ stack' = SetTop(stack, [Advance(f) EXCEPT !.nfail = @ + 1])
  /\ queried' = TRUE
  /\ pend' = NoPend
  /\ wr' = NoWr
  /\ UNCHANGED << CACHE, RESOLVING, lk, ret, clean, results >>

\* A guard stops the recursion at depth 2.
AtLimitGuarded(s) == Len(s) >= 2

\* The call of line 168 would exceed the interpreter's recursion limit: the
\* code itself has no test of the depth.
AtLimit(s) == Len(s) >= MaxDepth

\* One pass of the loop of line 115 against servers that only refer.
EngineQueryLoop ==
  /\ stack # <<>>
  /\ Top(stack).pc = "loop"
  /\ Top(stack).idx <= Len(Top(stack).nameservers)
  /\ LET f == Top(stack)
         m == LoopReply(f.target_name, f.qtype)
     IN  IF Classify(m) = "referral" /\ GlueIps(m) # <<>> /\ AtLimit(stack)
         THEN QueryOverflows(f, m)
         ELSE QueryReplies(f, m)
  /\ UNCHANGED nReplies

\* ------------------------------------------------------------------ lookup
\* Only the name itself is looked up in the delegations, never a parent.
StartServersExact(current, dc) ==
  IF current \in DOMAIN dc /\ dc[current] # <<>> THEN dc[current]
  ELSE ROOT_SERVERS

\* Lines 246-256: the servers of the closest ancestor zone with a cached,
\* non-empty delegation, else the root servers.
RECURSIVE StartServers(_, _)
StartServers(current, dc) ==
  IF current \in DOMAIN dc /\ dc[current] # <<>> THEN dc[current]
  ELSE IF Len(current) <= 1 THEN ROOT_SERVERS
  ELSE StartServers(Parent(current), dc)

\* The accumulated answers are left out.
SynthesizeBare(l, answers) ==
  MakeResponse(MakeQuery(l.original_target, l.original_qtype))

\* make_response(make_query(original_target, original_qtype)) with the
\* accumulated answers appended (lines 264-267, 289-292, 310-313, 318-321).
Synthesize(l, answers) ==
  [MakeResponse(MakeQuery(l.original_target, l.original_qtype)) EXCEPT
     !.answer = answers]

\* The engine's result is handed on as it is, None included.
FailResultUnguarded(l, response) == response

\* Lines 270-272: what lookup returns when nothing was accumulated.
FailResult(l, response) ==
  IF response = None
  THEN MakeResponse(MakeQuery(l.original_target, l.original_qtype))
  ELSE response

\* The guard lets one more pass through.
MayIterateInclusive(count) == count <= CNAME_CHAIN_LIMIT

\* Line 243: the guard of the CNAME loop.
MayIterate(count) == count < CNAME_CHAIN_LIMIT

\* Lines 298-301: the name the first CNAME record set points to.
CnameRestart(answer) ==
  FromText(NameToText(OfType(answer, "CNAME")[1].items[1]))

\* lookup returns result and forgets to store it.
LookupReturnsUnstored(result) ==
  /\ CACHE' = CACHE
  /\ results' = Append(results,
                  [key |-> <<lk.original_target, lk.original_qtype>>,
                   msg |-> result, queried |-> queried, clean |-> clean,
                   iters |-> lk.iters, count |-> lk.cname_chain_count,
                   hit |-> FALSE])
  /\ lk' = IdleLk
  /\ pend' = NoPend
  /\ wr' = Written("driver", CACHE, <<lk.original_target, lk.original_qtype>>, result)

\* lookup stores result under the original key (lines 268, 273, 293, 314,
\* 322) and returns it.
LookupReturns(result) ==
  /\ CACHE' = Put(CACHE, <<lk.original_target, lk.original_qtype>>, result)
  /\ results' = Append(results,
                  [key |-> <<lk.original_target, lk.original_qtype>>,
                   msg |-> result, queried |-> queried, clean |-> clean,
                   iters |-> lk.iters, count |-> lk.cname_chain_count,
                   hit |-> FALSE])
  /\ lk' = IdleLk
  /\ pend' = NoPend
  /\ wr' = Written("driver", CACHE, <<lk.original_target, lk.original_qtype>>, result)

\* Lines 230-239: lookup(n, t) is called; a cached key returns at once.
StartLookup(n, t) ==
  /\ lk.pc = "idle"
  /\ stack = <<>>
  /\ Len(results) < MaxLookups
  /\ queried' = FALSE
  /\ clean' = TRUE
  /\ IF <<n, t>> \in DOMAIN CACHE
     THEN /\ results' = Append(results,
                          [key |-> <<n, t>>, msg |-> CACHE[<<n, t>>],
                           queried |-> FALSE, clean |-> TRUE, iters |-> 0,
                           count |-> 0, hit |-> TRUE])
          /\ lk' = lk
     ELSE /\ lk' = [IdleLk EXCEPT !.pc = "loop", !.original_target = n,
                                  !.original_qtype = t, !.target_name = n]
          /\ results' = results
  /\ ev' = NoEv
  /\ wr' = NoWr
  /\ UNCHANGED << CACHE, RESOLVING, DELEGATION_CACHE, stack, ret, nReplies,
                  pend >>

\* Lines 243-258 and 317-323: the head of the CNAME loop, which calls
\* _lookup_recursive, and the exit when the loop runs out.
LookupLoop ==
  /\ lk.pc = "loop"
  /\ IF MayIterate(lk.cname_chain_count)
     THEN /\ stack' = << NewFrame(lk.target_name, lk.original_qtype,
                                  StartServers(lk.target_name, DELEGATION_CACHE)) >>
          /\ lk' = [lk EXCEPT !.pc = "wait", !.iters = @ + 1]
          /\ wr' = NoWr
          /\ UNCHANGED << CACHE, results, pend >>
     ELSE /\ LookupReturns(Synthesize(lk, lk.all_answers))
          /\ UNCHANGED stack
  /\ ev' = NoEv
  /\ UNCHANGED << RESOLVING, DELEGATION_CACHE, ret, nReplies, queried, clean >>

\* Lines 260-315: _lookup_recursive has returned response to lookup.
LookupResume ==
  /\ lk.pc = "wait"
  /\ stack = <<>>
  /\ LET response == ret
         acc == lk.all_answers \o response.answer
     IN  IF response = None \/ response.answer = <<>>
         THEN IF lk.all_answers # <<>>
              THEN LookupReturns(Synthesize(lk, lk.all_answers))
              ELSE LookupReturns(FailResult(lk, response))
         ELSE IF OfType(response.answer, lk.original_qtype) # <<>>
         THEN LookupReturns(Synthesize(lk, acc))
         ELSE IF OfType(response.answer, "CNAME") # <<>>
         THEN /\ lk' = [lk EXCEPT !.pc = "loop", !.all_answers = acc,
                                  !.target_name = CnameRestart(response.answer),
                                  !.cname_chain_count = @ + 1]
              /\ wr' = NoWr
              /\ UNCHANGED << CACHE, results, pend >>
         ELSE LookupReturns(Synthesize(lk, acc))
  /\ ret' = None
  /\ ev' = NoEv
  /\ UNCHANGED << RESOLVING, DELEGATION_CACHE, stack, nReplies, queried, clean >>

\* ----------------------------------------------------------- specification
Init ==
  /\ CACHE = <<>>
  /\ RESOLVING = {}
  /\ DELEGATION_CACHE = <<>>
  /\ lk = IdleLk
  /\ stack = <<>>
  /\ ret = None
  /\ nReplies = 0
  /\ queried = FALSE
  /\ clean = TRUE
  /\ results = <<>>
  /\ ev = NoEv
  /\ pend = NoPend
  /\ wr = NoWr

Next ==
  \/ \E k \in LookupKeys : StartLookup(k[1], k[2])
  \/ LookupLoop
  \/ LookupResume
  \/ EngineEnter
  \/ EngineExhausted
  \/ EngineQuery
  \/ EngineNsStep
  \/ EngineNsReturn
  \/ EngineRecReturn

Spec == Init /\ [][Next]_vars

\* The resolver against servers that only refer, every query answered.
NextLoop ==
  \/ \E k \in LookupKeys : StartLookup(k[1], k[2])
  \/ LookupLoop
  \/ LookupResume
  \/ EngineEnter
  \/ EngineExhausted
  \/ EngineQueryLoop
  \/ EngineNsStep
  \/ EngineNsReturn
  \/ EngineRecReturn

\* The program runs on as long as it has a step to take.
LoopSpec == Init /\ [][NextLoop]_vars /\ WF_vars(NextLoop)

\* ------------------------------------------------------------------ claims
\* C1. Cache idempotence: once lookup(name, type) has returned, the entry of
\* that key stays what it returned, and every later lookup(name, type)
\* returns the identical Message without a single dns.query.udp call, also
\* when the first lookup ended in a negative or an empty result.
C1_CacheIdempotence ==
  /\ \A i \in 1..Len(results) :
       /\ results[i].key \in DOMAIN CACHE
       /\ CACHE[results[i].key] = results[i].msg
  /\ \A i, j \in 1..Len(results) :
       (i < j /\ results[i].key = results[j].key)
         => /\ results[j].msg = results[i].msg
            /\ ~results[j].queried
            /\ results[j].hit

\* A second lookup of a key whose first lookup failed on every server.
C1_Witness ==
  /\ Len(results) = 2
  /\ results[1].key = results[2].key
  /\ results[1].queried
  /\ results[1].msg = MakeResponse(results[1].key)
  /\ results[2].hit

\* C2. lookup never returns None and never lets an exception out: whatever
\* the servers do, each finished lookup handed back a Message (a reply, a
\* synthesized Message or the bare empty response).
C2_AlwaysAMessage ==
  /\ lk.pc # "raised"
  /\ \A i \in 1..Len(results) :
       /\ results[i].msg # None
       /\ results[i].msg.rcode \in {NOERROR, NXDOMAIN}
       /\ results[i].msg.question = results[i].key

\* A lookup all of whose servers raised, which returned the bare response.
C2_Witness ==
  \E i \in 1..Len(results) :
    /\ results[i].queried
    /\ ~results[i].hit
    /\ results[i].iters = 1
    /\ results[i].msg = MakeResponse(results[i].key)
    /\ nReplies = 0

\* C3. Server exhaustion fallback: a dns.query.udp call that raises leaves
\* the same call of _lookup_recursive running, at the next server of its
\* list and with the tables untouched; and a reply with an answer section is
\* cached and returned by that call, also when earlier servers raised.
C3_ServerFallback ==
  /\ ev.kind = "raise"
       => /\ lk.pc # "raised"
          /\ Len(stack) = ev.depth
          /\ Top(stack).pc = "loop"
          /\ <<Top(stack).target_name, Top(stack).qtype>> = ev.key
          /\ Top(stack).idx > ev.idx
          /\ \A j \in (ev.idx + 1)..(Top(stack).idx - 1) :
               HasColon(Top(stack).nameservers[j])
          /\ CACHE = ev.cache
          /\ DELEGATION_CACHE = ev.deleg
  /\ (ev.kind = "reply" /\ ev.reply.answer # <<>>)
       => /\ Len(stack) = ev.depth - 1
          /\ ret = ev.reply
          /\ ev.key \in DOMAIN CACHE
          /\ CACHE[ev.key] = ev.reply

\* The second server of a list answers after the first one raised.
C3_Witness ==
  /\ ev.kind = "reply"
  /\ ev.reply.answer # <<>>
  /\ ev.nfail >= 1
  /\ ev.idx = 2
  /\ ret = ev.reply

\* The CNAME record sets a resolver meets from name n on, at most fuel of them.
RECURSIVE ChainRRsets(_, _)
ChainRRsets(n, fuel) ==
  IF HasCname(n) /\ fuel > 0
  THEN << RRset(n, "CNAME", << CnameTarget(n) >>) >> \o
       ChainRRsets(CnameTarget(n), fuel - 1)
  ELSE <<>>

\* The name reached from n after at most fuel CNAMEs.
RECURSIVE ChainEnd(_, _)
ChainEnd(n, fuel) ==
  IF HasCname(n) /\ fuel > 0 THEN ChainEnd(CnameTarget(n), fuel - 1) ELSE n

\* C4. CNAME chain assembly, as claimed: whatever earlier lookups left in
\* the tables, when n heads a chain of fewer than 10 CNAMEs that ends at a
\* name with a record set of type T and every server asked so far gave the
\* data or a referral, lookup(n, T) returns the question (n, T) and an answer
\* section of the chain's CNAME record sets followed by the type-T record set.
C4_ChainAssembly ==
  \A i \in 1..Len(results) :
    LET r == results[i]
        n == r.key[1]
        last == ChainEnd(n, CNAME_CHAIN_LIMIT - 1)
    IN  (~HasCname(last) /\ \A j \in 1..i : results[j].clean)
          => /\ r.msg.question = r.key
             /\ r.msg.answer =
                  ChainRRsets(n, CNAME_CHAIN_LIMIT - 1) \o << ZoneRRset(last, r.key[2]) >>

\* C5. Chain bound: lookup calls _lookup_recursive at most 10 times and
\* raises nothing; when the CNAME loop runs out (a cycle, or more than 10
\* hops) it returns, and stores under the original key, the response
\* synthesized from the record sets accumulated: on a fresh cycle the first
\* ten CNAME record sets.
C5_ChainBound ==
  /\ lk.pc # "raised"
  /\ lk.iters <= 10
  /\ \A i \in 1..Len(results) :
       LET r == results[i]
       IN  /\ r.iters <= 10
           /\ r.count = 10
                => /\ r.iters = 10
                   /\ r.msg = [MakeResponse(r.key) EXCEPT !.answer = r.msg.answer]
                   /\ Len(r.msg.answer) >= 10
                   /\ CACHE[r.key] = r.msg
           /\ (i = 1 /\ r.clean /\ r.key[1] \in {NameX, NameY})
                => r.msg.answer = ChainRRsets(r.key[1], 10)

\* A lookup of a name on the CNAME cycle has run its ten passes.
C5_Witness ==
  \E i \in 1..Len(results) :
    /\ results[i].count = 10
    /\ results[i].key[1] = NameX
    /\ Len(results[i].msg.answer) = 10

\* A reply without answer that is negative: a result code other than
\* success, or an SOA record set in authority.
NegativeReply(m) ==
  /\ m.answer = <<>>
  /\ m.rcode # NOERROR \/ \E i \in 1..Len(m.authority) : m.authority[i].rdtype = "SOA"

\* C6. Negative/NODATA is terminal: a negative reply (also one whose
\* authority holds NS sets beside the SOA) is stored unchanged under the
\* key of the call, which returns it at once: nothing else is cached, no
\* delegation is recorded, no referral is followed.
C6_NegativeIsTerminal ==
  (ev.kind = "reply" /\ NegativeReply(ev.reply))
    => /\ CACHE = Put(ev.cache, ev.key, ev.reply)
       /\ ret = ev.reply
       /\ Len(stack) = ev.depth - 1
       /\ DELEGATION_CACHE = ev.deleg
       /\ ~pend.active

\* A NODATA reply with SOA and NS in authority has just been returned.
C6_Witness ==
  /\ ev.kind = "reply"
  /\ ev.reply.rcode = NOERROR
  /\ ev.reply.answer = <<>>
  /\ OfType(ev.reply.authority, "SOA") # <<>>
  /\ OfType(ev.reply.authority, "NS") # <<>>
  /\ ret = ev.reply

\* A reply that is a dead end: success, no answer, and neither SOA nor NS in
\* authority (an empty authority section included).
DeadEndReplyShape(m) ==
  /\ m.answer = <<>>
  /\ m.rcode = NOERROR
  /\ \A i \in 1..Len(m.authority) : m.authority[i].rdtype \notin {"SOA", "NS"}

\* C7. Dead end is terminal, as claimed: every dead-end reply is stored
\* under the key of the call and returned, and no further server is asked.
C7_DeadEndIsTerminal ==
  (ev.kind = "reply" /\ DeadEndReplyShape(ev.reply))
    => /\ ev.key \in DOMAIN CACHE
       /\ CACHE[ev.key] = ev.reply
       /\ ret = ev.reply
       /\ Len(stack) = ev.depth - 1

\* A reply that is a referral: success, no answer, no SOA, NS in authority.
ReferralShape(m) ==
  /\ m.answer = <<>>
  /\ m.rcode = NOERROR
  /\ \A i \in 1..Len(m.authority) : m.authority[i].rdtype # "SOA"
  /\ \E i \in 1..Len(m.authority) : m.authority[i].rdtype = "NS"

\* The zone a referral delegates: the owner of its NS record set.
ReferralZone(m) ==
  LET ns == SelectSeq(m.authority, LAMBDA rr : rr.rdtype = "NS")
  IN  ns[Len(ns)].name

\* The A record sets of the additional section of a reply.
GlueSets(m) == SelectSeq(m.additional, LAMBDA rr : rr.rdtype = "A")

\* All the glue addresses of a referral, in the order received.
AllGlue(m) ==
  LET sets == GlueSets(m)
  IN  Flatten([i \in 1..Len(sets) |->
                 [j \in 1..Len(sets[i].items) |-> sets[i].items[j][1]]])

\* The first address of each glue A record set.
FirstGlue(m) ==
  LET sets == GlueSets(m) IN [i \in 1..Len(sets) |-> sets[i].items[1][1]]

\* The top frame is about to query a server.
AboutToQuery ==
  /\ stack # <<>>
  /\ Top(stack).pc = "loop"
  /\ Top(stack).idx <= Len(Top(stack).nameservers)

\* C8 as claimed: after a referral for zone Z with glue A addresses G,
\* DELEGATION_CACHE[Z] is G without duplicates, and the next transport call
\* goes to the first address of G with the same name and type.
C8_GlueReferralAsClaimed ==
  /\ (ev.kind = "reply" /\ ReferralShape(ev.reply) /\ AllGlue(ev.reply) # <<>>)
       => /\ ReferralZone(ev.reply) \in DOMAIN DELEGATION_CACHE
          /\ DELEGATION_CACHE[ReferralZone(ev.reply)] = Dedup(AllGlue(ev.reply))
  /\ (pend.active /\ AboutToQuery)
       => /\ Top(stack).nameservers[Top(stack).idx] = AllGlue(pend.reply)[1]
          /\ <<Top(stack).target_name, Top(stack).qtype>> = pend.key

\* C8. Glue referral: G holds the first address of each glue A record set.
\* After such a referral DELEGATION_CACHE[Z] is G without duplicates and the
\* call recurses on it with the same name and type; unless the recursive call
\* is answered from CACHE, the next transport call goes to the first address
\* of G with that name and type.
C8_GlueReferral ==
  /\ (ev.kind = "reply" /\ ReferralShape(ev.reply) /\ FirstGlue(ev.reply) # <<>>)
       => /\ pend.active /\ pend.reply = ev.reply /\ pend.key = ev.key
          /\ ReferralZone(ev.reply) \in DOMAIN DELEGATION_CACHE
          /\ DELEGATION_CACHE[ReferralZone(ev.reply)] = Dedup(FirstGlue(ev.reply))
          /\ Len(stack) = ev.depth + 1
          /\ Top(stack).pc = "enter"
          /\ Top(stack).nameservers = Dedup(FirstGlue(ev.reply))
          /\ <<Top(stack).target_name, Top(stack).qtype>> = ev.key
  /\ (pend.active /\ ~pend.hit /\ AboutToQuery)
       => /\ Top(stack).nameservers[Top(stack).idx] = FirstGlue(pend.reply)[1]
          /\ <<Top(stack).target_name, Top(stack).qtype>> = pend.key

\* The glue of a referral was recorded and its first address is about to be
\* queried; the referral carried more addresses than were kept.
C8_Witness ==
  /\ pend.active /\ ~pend.hit /\ AboutToQuery
  /\ Top(stack).nameservers[Top(stack).idx] = "10.0.0.1"
  /\ DELEGATION_CACHE[ZoneEx] = <<"10.0.0.1", "10.0.0.3">>
  /\ Len(AllGlue(pend.reply)) > Len(FirstGlue(pend.reply))

\* C9 as claimed: at most the first 3 name server names of a glueless
\* referral are resolved.
C9_NsNameLimitAsClaimed ==
  \A k \in 1..Len(stack) :
    stack[k].pc = "ns_wait"
      => /\ stack[k].ns_idx <= 3
         /\ Len(stack[k].next_server_ips) < 3

\* C9. Glueless referral: the name server names are resolved in the order
\* listed, each by an A query started from the root servers and marked in
\* RESOLVING, for as many names as it takes; none is resolved once 3 or more
\* addresses are collected.
C9_NsResolution ==
  \A k \in 1..Len(stack) :
    stack[k].pc = "ns_wait"
      => /\ stack[k].ns_idx \in 1..Len(stack[k].ns_names)
         /\ Len(stack[k].next_server_ips) < 3
         /\ k < Len(stack)
              => /\ stack[k+1].target_name = FromText(stack[k].ns_names[stack[k].ns_idx])
                 /\ stack[k+1].qtype = "A"
                 /\ stack[k+1].nameservers = ROOT_SERVERS
                 /\ <<stack[k+1].target_name, "A">> \in RESOLVING

\* A fourth name server name is being resolved.
C9_Witness ==
  \E k \in 1..Len(stack) :
    /\ stack[k].pc = "ns_wait"
    /\ stack[k].ns_idx = 4
    /\ k < Len(stack)
    /\ stack[k+1].pc = "loop"

\* The callee of a frame that recursed on the addresses it resolved.
NsRecursion(k) ==
  /\ k < Len(stack)
  /\ stack[k].pc = "rec_wait"
  /\ stack[k].via = "ns"

\* C10 as claimed: the address list collected for a glueless referral, and
\* recorded in DELEGATION_CACHE, never has more than 3 addresses.
C10_AddressCapAsClaimed ==
  \A k \in 1..Len(stack) :
    NsRecursion(k) => Len(stack[k+1].nameservers) <= 3

\* C10. Collected addresses: collection stops once at least 3 addresses are
\* held, so the list is shorter than 3 whenever another name is taken up, and
\* the list recorded and recursed on is shorter than 3 plus the number of A
\* records of one name.
C10_AddressCap ==
  \A k \in 1..Len(stack) :
    /\ stack[k].pc \in {"ns_loop", "ns_wait"} => Len(stack[k].next_server_ips) < 3
    /\ NsRecursion(k)
         => /\ Len(stack[k+1].nameservers) < 3 + Len(AddressesOfC)
            /\ stack[k+1].pc = "enter"
                 => DELEGATION_CACHE[stack[k].zone_name] = stack[k+1].nameservers

\* A recursion on more than 3 collected addresses.
C10_Witness ==
  \E k \in 1..Len(stack) :
    /\ NsRecursion(k)
    /\ Len(stack[k+1].nameservers) > 3
    /\ DELEGATION_CACHE[stack[k].zone_name] = stack[k+1].nameservers

\* The name n without its first i - 1 labels: n itself, then its parents,
\* the root last.
Ancestor(n, i) == SubSeq(n, i, Len(n))

HasDelegation(z) == z \in DOMAIN DELEGATION_CACHE /\ DELEGATION_CACHE[z] # <<>>

\* The servers of the nearest ancestor of n with a non-empty delegation, the
\* root servers when there is none.
CandidateList(n) ==
  LET I == {i \in 1..Len(n) : HasDelegation(Ancestor(n, i))}
  IN  IF I = {} THEN ROOT_SERVERS
      ELSE DELEGATION_CACHE[Ancestor(n, CHOOSE i \in I : \A j \in I : i <= j)]

\* lookup's own call of _lookup_recursive, before its first query.
DriverCallFresh ==
  /\ lk.pc = "wait"
  /\ Len(stack) = 1
  /\ stack[1].pc = "enter" \/ (stack[1].pc = "loop" /\ stack[1].idx = 1)

\* C11. Delegation-cache reuse: every call lookup makes to
\* _lookup_recursive is for the name being chased, with the servers of the
\* nearest ancestor zone (the name itself first) that has a non-empty
\* delegation, and with the root servers only when there is none; the first
\* query of that call goes to the first of these servers.
C11_DelegationReuse ==
  DriverCallFresh
    => /\ stack[1].target_name = lk.target_name
       /\ stack[1].qtype = lk.original_qtype
       /\ stack[1].nameservers = CandidateList(lk.target_name)
       /\ (\E i \in 1..Len(lk.target_name) : HasDelegation(Ancestor(lk.target_name, i)))
            => \A j \in 1..Len(ROOT_SERVERS) : stack[1].nameservers[1] # ROOT_SERVERS[j]

\* After a lookup of a.ex recorded the delegation of ex., the lookup of the
\* sibling c.ex is about to send its first query to a server of ex.
C11_Witness ==
  /\ DriverCallFresh
  /\ Len(results) = 1
  /\ results[1].key[1] = NameA
  /\ lk.original_target = NameC
  /\ stack[1].pc = "loop"
  /\ ~HasDelegation(NameC)
  /\ HasDelegation(ZoneEx)
  /\ stack[1].nameservers[stack[1].idx] = DELEGATION_CACHE[ZoneEx][1]

\* The key of the nested name server resolution frame k waits for.
NestedKey(k) == << FromText(stack[k].ns_names[stack[k].ns_idx]), "A" >>

\* The frames that wait for a nested name server resolution.
NestedWaits == {k \in 1..Len(stack) : stack[k].pc = "ns_wait"}

\* C12. RESOLVING holds exactly the keys of the nested name server
\* resolutions on the call stack, each of them once; it is empty whenever no
\* call of _lookup_recursive is running, so after every lookup has returned.
C12_ResolvingPaired ==
  /\ RESOLVING = {NestedKey(k) : k \in NestedWaits}
  /\ \A k1, k2 \in NestedWaits : NestedKey(k1) = NestedKey(k2) => k1 = k2
  /\ stack = <<>> => RESOLVING = {}
  /\ lk.pc = "idle" => RESOLVING = {}

\* A lookup has returned after a referral without glue whose nested
\* resolutions collected four addresses, and after a query that failed or
\* gave a reply of no use; the set is empty again.
C12_Witness ==
  /\ lk.pc = "idle"
  /\ RESOLVING = {}
  /\ Len(results) >= 1
  /\ ~results[Len(results)].clean
  /\ ZoneEx \in DOMAIN DELEGATION_CACHE
  /\ Len(DELEGATION_CACHE[ZoneEx]) = 4

\* The keys of the lookups that returned before the last one did.
EarlierKeys == {results[i].key : i \in 1..(Len(results) - 1)}

\* C13 as claimed: every key of CACHE is written at most once, so no write
\* finds its key already there.
C13_WriteOnceAsClaimed == wr.by # "none" => ~wr.had

\* C13. Writes to CACHE: _lookup_recursive stores a reply under the key of
\* its call, lookup stores its result once, when it returns, under its
\* original key, also when the engine stored a reply under that key during
\* the same lookup; no write touches the key of a lookup that returned
\* before, whose entry stays what that lookup returned.
C13_CacheWrites ==
  /\ wr.by # "none" => wr.key \in DOMAIN CACHE
  /\ wr.by = "engine"
       => /\ ev.kind = "reply" /\ wr.key = ev.key /\ CACHE[wr.key] = ev.reply
          /\ \A i \in 1..Len(results) : results[i].key # wr.key
  /\ wr.by = "driver"
       => /\ lk.pc = "idle"
          /\ Len(results) >= 1
          /\ results[Len(results)].key = wr.key
          /\ ~results[Len(results)].hit
          /\ CACHE[wr.key] = results[Len(results)].msg
          /\ wr.key \notin EarlierKeys
  /\ lk.pc # "idle" => wr.by # "driver"
  /\ \A i \in 1..Len(results) :
       results[i].key \in DOMAIN CACHE /\ CACHE[results[i].key] = results[i].msg

\* lookup has just replaced the reply the engine stored under its key by a
\* different Message, while a lookup that returned before keeps its entry.
C13_Witness ==
  /\ wr.by = "driver"
  /\ wr.had
  /\ ~wr.same
  /\ Len(results) = 2
  /\ results[1].queried

\* The running call is at a name server name whose A key is in flight.
AtNameInFlight ==
  /\ stack # <<>>
  /\ Top(stack).pc = "ns_loop"
  /\ NestedKey(Len(stack)) \in RESOLVING

\* The step from such a state takes no key into RESOLVING, starts no call,
\* and, when names are left, goes on to the next one with the addresses
\* collected so far.
SkipsNameInFlight ==
  AtNameInFlight
    => /\ RESOLVING' = RESOLVING
       /\ \A k \in 1..Len(stack') :
            k > Len(stack) => stack'[k].nameservers # ROOT_SERVERS
       /\ Top(stack).ns_idx < Len(Top(stack).ns_names)
            => stack' = SetTop(stack, [Top(stack) EXCEPT !.ns_idx = @ + 1])

\* C14. Name server resolution cycle: a name server name whose A key is in
\* RESOLVING is passed over without a nested resolution and the names after
\* it are still taken up; no key is in flight twice, and with name servers x
\* and y that each need the other's address every lookup of x or y returns.
C14_CycleSkipped ==
  /\ [](\A k1, k2 \in NestedWaits : NestedKey(k1) = NestedKey(k2) => k1 = k2)
  /\ [][SkipsNameInFlight]_vars
  /\ (lk.pc # "idle" /\ lk.original_target \in {NameX, NameY}) ~> (lk.pc = "idle")

\* While x is being resolved as a name server name, the nested call got the
\* referral to x and y, passed x over and is resolving y.
C14_Witness ==
  \E j, k \in NestedWaits :
    /\ j < k
    /\ stack[k].ns_idx = 2
    /\ NestedKey(j) = << FromText(stack[k].ns_names[1]), "A" >>
    /\ NestedKey(k) = << NameY, "A" >>
    /\ k < Len(stack)

\* A reply that ends the call as the classification has it: a final answer, a
\* negative reply or a dead end.
TerminalReply(m) == m.answer # <<>> \/ NegativeReply(m) \/ DeadEndReplyShape(m)

\* C15. Server iteration, as claimed: the candidates of one call hold no
\* duplicate, each query goes to an IPv4 entry, after a query the call is at
\* the next entry of the list if it is still in its loop, and after a final,
\* negative or dead-end reply the call has returned, so that no later server
\* is asked.
C15_OrderedOnceOnly ==
  /\ \A k \in 1..Len(stack) : stack[k].nameservers = Dedup(stack[k].nameservers)
  /\ ev.kind # "none"
       => /\ ~HasColon(ev.server)
          /\ (Len(stack) >= ev.depth /\ stack[ev.depth].pc = "loop")
               => stack[ev.depth].idx = ev.idx + 1
  /\ (ev.kind = "reply" /\ TerminalReply(ev.reply))
       => /\ Len(stack) = ev.depth - 1
          /\ ret = ev.reply

\* The call at depth d goes on to a later server in this step.
MovesOn(d) ==
  /\ d <= Len(stack')
  /\ stack[d].pc # "enter"
  /\ stack'[d].pc = "loop"
  /\ stack'[d].idx > stack[d].idx

\* The running call returns None in this step.
ReturnsAbsent ==
  /\ stack # <<>>
  /\ Len(stack') = Len(stack) - 1
  /\ ret' = None
  /\ Top(stack).pc = "loop"

\* C16. Exhaustion, as claimed: a call goes on to a later server only after
\* a transport failure or after a referral whose follow-up gave no Message,
\* and it returns None only when every candidate was tried, leaving CACHE as
\* it is.
C16_AbsentAfterAllFailed ==
  [][ /\ \A d \in 1..Len(stack) :
           MovesOn(d)
             => \/ ev'.kind = "raise"
                \/ stack[d].pc \in {"rec_wait", "ns_loop", "ns_wait"}
      /\ ReturnsAbsent
           => /\ Top(stack).idx > Len(Top(stack).nameservers)
              /\ CACHE' = CACHE ]_vars

\* lookup is resolving a name for which every server answers with the
\* referral with glue, also the servers that referral names.
ChasingReferrals == lk.pc = "wait" /\ lk.target_name \notin {NameX, NameY}

OnlyTheLimitStops ==
  ChasingReferrals
    => /\ \A d \in 1..Len(stack) :
            MovesOn(d)
              => \/ d = Len(stack) /\ Len(stack) = MaxDepth /\ ev'.kind = "reply"
                 \/ stack[d].pc = "rec_wait" /\ ret = None
       /\ Len(stack') < Len(stack)
            => /\ Top(stack).idx > Len(Top(stack).nameservers)
               /\ ret' = None

AddressList(v) ==
  /\ v # <<>>
  /\ \A i \in 1..Len(v) : ~HasColon(v[i])
  /\ \A i, j \in 1..Len(v) : v[i] = v[j] => i = j

\* p is the beginning of v.
IsPrefix(p, v) == Len(p) <= Len(v) /\ SubSeq(v, 1, Len(p)) = p

\* The first occurrences of the addresses of s, in order.
FirstSeen(s) ==
  SelectSeq([i \in 1..Len(s) |-> IF \E j \in 1..(i - 1) : s[j] = s[i] THEN "" ELSE s[i]],
            LAMBDA a : a # "")

\* A step that changes DELEGATION_CACHE writes one zone: the zone of the
\* glue referral just received, with the glue in the order received, or the
\* zone of the referral whose name servers the running call was resolving,
\* with the addresses in the order collected.
DelegationWrite ==
  DELEGATION_CACHE' # DELEGATION_CACHE
    => \E z \in DOMAIN DELEGATION_CACHE' :
         /\ \A y \in DOMAIN DELEGATION_CACHE' \ {z} :
              y \in DOMAIN DELEGATION_CACHE /\ DELEGATION_CACHE'[y] = DELEGATION_CACHE[y]
         /\ \/ /\ ev'.kind = "reply"
               /\ ReferralShape(ev'.reply)
               /\ z = ReferralZone(ev'.reply)
               /\ DELEGATION_CACHE'[z] = FirstSeen(FirstGlue(ev'.reply))
            \/ /\ stack # <<>>
               /\ Top(stack).pc \in {"ns_loop", "ns_wait"}
               /\ z = Top(stack).zone_name
               /\ IsPrefix(FirstSeen(Top(stack).next_server_ips), DELEGATION_CACHE'[z])

\* C18. DELEGATION_CACHE shape and monotonicity: every value is a non-empty
\* list of IPv4 addresses without duplicates, a zone is written only by a
\* referral for it that yielded an address, in the order the addresses were
\* found, and no step removes a key from DELEGATION_CACHE or from CACHE.
C18_DelegationShape ==
  /\ [](\A z \in DOMAIN DELEGATION_CACHE : AddressList(DELEGATION_CACHE[z]))
  /\ [][DelegationWrite]_vars
  /\ [][ /\ DOMAIN DELEGATION_CACHE \subseteq DOMAIN DELEGATION_CACHE'
         /\ DOMAIN CACHE \subseteq DOMAIN CACHE' ]_vars

\* A referral whose glue named one address twice is recorded without the
\* duplicate, over an entry of four addresses collected earlier.
C18_Witness ==
  /\ ev.kind = "reply"
  /\ ReferralShape(ev.reply)
  /\ Len(FirstGlue(ev.reply)) = 3
  /\ ZoneEx \in DOMAIN ev.deleg
  /\ Len(ev.deleg[ZoneEx]) = 4
  /\ DELEGATION_CACHE[ZoneEx] = << "10.0.0.1", "10.0.0.3" >>

\* C19. Cache hits of lookup, as claimed: every Message lookup returns from
\* its initial cache check was stored by an earlier lookup of the same name
\* and type that returned it; an entry the engine wrote on the way of another
\* resolution never answers a lookup.
C19_HitsComeFromLookups ==
  \A i \in 1..Len(results) :
    results[i].hit
      => \E j \in 1..(i - 1) :
           results[j].key = results[i].key /\ results[j].msg = results[i].msg

\* _lookup_recursive has just returned None to lookup after every server
\* of the delegation lookup started from raised: no reply came, so
\* DELEGATION_CACHE is what it was when lookup chose the servers.
DelegatedServersAllFailed ==
  /\ lk.pc = "wait"
  /\ stack = <<>>
  /\ ev.kind = "absent"
  /\ \E i \in 1..Len(lk.target_name) : HasDelegation(Ancestor(lk.target_name, i))
  /\ ev.nfail = Len(CandidateList(lk.target_name))
  /\ ev.idx = ev.nfail + 1

\* lookup returns msg in this step and stores it under its original key.
ReturnsStored(msg) ==
  /\ lk'.pc = "idle"
  /\ stack' = <<>>
  /\ results' = Append(results, results'[Len(results')])
  /\ results'[Len(results')].msg = msg
  /\ results'[Len(results')].key = <<lk.original_target, lk.original_qtype>>
  /\ CACHE' = Put(CACHE, <<lk.original_target, lk.original_qtype>>, msg)

\* C20 as claimed: when the servers of the cached delegation all fail,
\* lookup makes no further call and returns and stores the bare empty
\* Message.
C20_NoRootFallbackAsClaimed ==
  [][DelegatedServersAllFailed
       => ReturnsStored(MakeResponse(<<lk.original_target, lk.original_qtype>>))]_vars

\* C20. No fallback from a cached delegation to the root: when the servers
\* of the cached delegation all fail, lookup makes no further call; it
\* returns and stores under its original key the bare empty Message if no
\* CNAME was followed before, else the Message that holds the record sets
\* accumulated so far.
C20_NoRootFallback ==
  [][DelegatedServersAllFailed
       => ReturnsStored([MakeResponse(<<lk.original_target, lk.original_qtype>>)
                           EXCEPT !.answer = lk.all_answers])]_vars

\* A lookup that started from the servers of a cached delegation, which all
\* failed, has returned the bare empty Message without a query to a root
\* server, and that Message is what CACHE holds for its key.
C20_Witness ==
  /\ Len(results) = 2
  /\ lk.pc = "idle"
  /\ wr.by = "driver"
  /\ results[2].queried
  /\ results[2].iters = 1
  /\ results[2].msg = MakeResponse(results[2].key)
  /\ CACHE[results[2].key] = results[2].msg
  /\ HasDelegation(ZoneEx)
  /\ nReplies = 1
  /\ results[1].key[1] = NameA
  /\ Len(results[1].msg.answer) = 0
  /\ results[2].key[1] = NameC

====
